---- MODULE Spec2Model ----
(***************************************************************************)
(* Model of MicrowaveWindfreak (hardware/microwave/mw_source_windfreak.py) *)
(* : the adapter that turns microwave-source operations into ASCII         *)
(* commands on one VISA connection.                                        *)
(*                                                                         *)
(* Units.  Frequencies are integers in kHz (the driver takes Hz; 1 model   *)
(* unit = 1000 Hz), so that the capability limits 54e6 Hz .. 13.6e9 Hz fit *)
(* TLC's 32-bit integers.  Powers are integers in dBm.  An optional        *)
(* argument is a sequence: <<>> is Python's None, <<v>> is the value v.    *)
(*                                                                         *)
(* Every handler is synchronous and the module has a single caller, so     *)
(* one action is one complete call of one handler.  `last` records that    *)
(* call: its name, arguments, outcome (return value or the exception that  *)
(* ended it), the transport traffic it produced in order, and the adapter  *)
(* and device state it started from.                                       *)
(***************************************************************************)
EXTENDS Integers, Sequences, FiniteSets, TLC

VARIABLES
    active,         \* the module is activated (on_activate returned)
    usb_timeout,    \* self._usb_timeout
    conn,           \* per connection attribute: "absent" | "open" | "closed"
    rm,             \* self.rm, the resource manager: "absent" | "open" | "closed"
    open_timeout,   \* timeout (ms) given to the last open_resource call
    internal_mode,  \* self.internal_mode: "unset" | "cw" | "list" | "sweep"
    dev_running,    \* simulated device: RF output enabled
    dev_stuck,      \* simulated device: never reports "running"
    dev_freq,       \* simulated device: the frequency it holds (see DevFreqStep)
    last            \* the last handler call (see LastCall)

vars == <<active, usb_timeout, conn, rm, open_timeout, internal_mode,
          dev_running, dev_stuck, dev_freq, last>>

----------------------------------------------------------------------------
(* Bounds of the model *)

\* longest frequency list handed to set_list
MaxLen == 2

\* on_activate is not called again once self._usb_timeout exceeds this
MaxTimeout == 10000

\* frequencies (kHz) the caller may pass: below the minimum, in range with
\* at most 7 significant digits, and in range with 8 significant digits (a
\* tie that '%e' rounds to even)
Freqs == {1, 1000000, 12345665}

\* powers (dBm) the caller may pass: below, inside, above the power limits
Powers == {-51, -10, 21}

OptPowers == {<<>>} \cup {<<p>> : p \in Powers}
OptFreqs == {<<>>} \cup {<<f>> : f \in Freqs}

FreqLists == UNION {[1..n -> Freqs] : n \in 0..MaxLen}

\* sweep steps (kHz) the caller may pass
SweepSteps == {1000}

Pols == {"RISING", "FALLING", "ANY"}

----------------------------------------------------------------------------
(* Configuration and capability limits *)

\* ConfigOption('usb_timeout', 10): seconds
DefaultTimeout == 10

\* get_limits, frequencies in kHz and powers in dBm
MinFrequency == 54000
MaxFrequency == 13600000
MinPower == -50
MaxPower == 20

get_limits == [min_frequency |-> MinFrequency, max_frequency |-> MaxFrequency,
               min_power |-> MinPower, max_power |-> MaxPower]

\* the connection attributes the handlers name
USB == "_usb_connection"
GPIB == "_gpib_connection"
MANGLED == "_MicrowaveWindfreak__usb_connection"
ConnAttrs == {USB, GPIB, MANGLED}

\* the class attribute _internal_mode = 'cw': the mode the adapter declares
\* before any mode-switch handler has assigned self.internal_mode
InitialMode == "cw"
ModeOf(m) == IF m = "unset" THEN InitialMode ELSE m

----------------------------------------------------------------------------
(* Command encoding *)

RECURSIVE Pow10(_)
Pow10(n) == IF n = 0 THEN 1 ELSE 10 * Pow10(n - 1)

RECURSIVE NDigits(_)
NDigits(v) == IF v < 10 THEN 1 ELSE 1 + NDigits(v \div 10)

\* v / p rounded to an integer, ties to even (Python's float formatting
\* rounds the exact value); p is 10 or a higher power of 10
RoundHalfEven(v, p) ==
    LET q == v \div p
        r == v % p
    IN  IF 2 * r > p \/ (2 * r = p /\ q % 2 = 1) THEN q + 1 ELSE q

NoArg == [k |-> "none", m |-> 0, x |-> 0]

\* '{0:e}'.format(hz) for hz = 1000 * khz, khz >= 1: seven significant
\* digits m (d.dddddd) and a decimal exponent x
FormatE(khz) ==
    LET d == NDigits(khz)
    IN  IF d <= 7
        THEN [k |-> "e", m |-> khz * Pow10(7 - d), x |-> d + 2]
        ELSE LET r == RoundHalfEven(khz, Pow10(d - 7))
             IN  IF r = Pow10(7)
                 THEN [k |-> "e", m |-> Pow10(6), x |-> d + 3]
                 ELSE [k |-> "e", m |-> r, x |-> d + 2]

\* '{0:f}'.format(v) for an integer v: v with six zero decimals
FormatF(v) == [k |-> "f", m |-> v, x |-> 6]

\* '{0}'.format(n) for an integer n
FormatD(n) == [k |-> "d", m |-> n, x |-> 0]

\* str(v) for a float v with an integer value: the digits and '.0'
FormatS(v) == [k |-> "s", m |-> v, x |-> 1]

\* a command: the literal text s, the formatted argument a, the literal
\* text u after it
Cmd(s, a, u) == [s |-> s, a |-> a, u |-> u]
Lit(s) == Cmd(s, NoArg, "")

OnCmd == Lit("E1r1")
OffCmd == Lit("E0r0")

\* the CW-enable command of cw_on
CwEnableCmd == Lit("E1e1")

----------------------------------------------------------------------------
(* Simulated device and transport *)

\* on() documents 'E1r1' as switching the output on, off() 'E0r0' as
\* switching it off; no other command changes the output state
DevStep(run, c) == IF c = OnCmd THEN TRUE ELSE IF c = OffCmd THEN FALSE ELSE run

\* a frequency held by the device, in Hz: the digits m (d.dddddd) and the
\* decimal exponent x; at power-on 1 GHz
PowerOnFreq == [k |-> "e", m |-> 1000000, x |-> 9]

\* the device stores the number of an 'f' command in the unit the command
\* names (MHz: six decades above Hz); no other command changes it
DevFreqStep(freq, c) ==
    IF c.s = "f" /\ c.u = " MHz" THEN [c.a EXCEPT !.x = c.a.x + 6] ELSE freq

RECURSIVE FreqAfter(_, _)
FreqAfter(cmds, freq) ==
    IF cmds = <<>> THEN freq
    ELSE FreqAfter(Tail(cmds), DevFreqStep(freq, Head(cmds)))

\* the reply to 'r?'
StatusReply(run, stuck) == IF run /\ ~stuck THEN "1" ELSE "0"

\* bool(int(reply.strip()))
ParseStatus(reply) == reply = "1"

\* the writes cmds, in order, on the open connection h, starting from
\* output state run: the traffic entries and the final output state
RECURSIVE Writes(_, _, _)
Writes(h, cmds, run) ==
    IF cmds = <<>> THEN [log |-> <<>>, run |-> run]
    ELSE LET rest == Writes(h, Tail(cmds), DevStep(run, Head(cmds)))
         IN  [log |-> <<[t |-> "w", h |-> h, c |-> Head(cmds), run |-> run]>>
                       \o rest.log,
              run |-> rest.run]

Query(h, s, run) == [t |-> "q", h |-> h, c |-> Lit(s), run |-> run]

\* a write that raised: nothing reached the device
FailedWrite(h, c, run) == [t |-> "x", h |-> h, c |-> c, run |-> run]

----------------------------------------------------------------------------
(* The record of a handler call *)

LastCall(op, ret, log, refs, fr, pw, pol) ==
    [op |-> op, ret |-> ret, log |-> log, refs |-> refs,
     mode |-> "none", running |-> FALSE, val |-> NoArg,
     pre_mode |-> internal_mode, pre_running |-> dev_running,
     fr |-> fr, pw |-> pw, pol |-> pol]

NoCall == [op |-> "none", ret |-> "none", log |-> <<>>, refs |-> {},
           mode |-> "none", running |-> FALSE, val |-> NoArg,
           pre_mode |-> "unset", pre_running |-> FALSE,
           fr |-> <<>>, pw |-> <<>>, pol |-> "none"]

\* a handler that only writes cmds on self._usb_connection, sets
\* self.internal_mode to mode and returns ret
Straight(op, cmds, mode, ret, fr, pw, pol) ==
    LET w == Writes(USB, cmds, dev_running)
    IN  /\ active
        /\ last' = LastCall(op, ret, w.log, {USB}, fr, pw, pol)
        /\ dev_running' = w.run
        /\ dev_freq' = FreqAfter(cmds, dev_freq)
        /\ internal_mode' = mode
        /\ UNCHANGED <<active, usb_timeout, conn, rm, open_timeout, dev_stuck>>

----------------------------------------------------------------------------
Init ==
    /\ active = FALSE
    /\ usb_timeout = DefaultTimeout
    /\ conn = [a \in ConnAttrs |-> "absent"]
    /\ rm = "absent"
    /\ open_timeout = 0
    /\ internal_mode = "unset"
    /\ dev_running = FALSE
    /\ dev_stuck \in BOOLEAN
    /\ dev_freq = PowerOnFreq
    /\ last = NoCall

\* on_activate: the timeout is multiplied in place, the resource manager
\* and the connection are opened, then '+' is queried; a query that fails
\* raises out of on_activate and the module is not activated
on_activate ==
    /\ ~active
    /\ usb_timeout <= MaxTimeout
    /\ \E alive \in BOOLEAN :
        /\ usb_timeout' = usb_timeout * 1000
        /\ rm' = "open"
        /\ conn' = [conn EXCEPT ![USB] = "open"]
        /\ open_timeout' = usb_timeout * 1000
        /\ active' = alive
        /\ last' = LastCall("on_activate",
                            IF alive THEN "None" ELSE "VisaIOError",
                            <<Query(USB, "+", dev_running)>>, {USB},
                            <<>>, <<>>, "none")
    /\ UNCHANGED <<internal_mode, dev_running, dev_stuck, dev_freq>>

on_deactivate ==
    /\ active
    /\ conn' = [conn EXCEPT ![USB] = "closed"]
    /\ rm' = "closed"
    /\ active' = FALSE
    /\ last' = LastCall("on_deactivate", "None", <<>>, {USB}, <<>>, <<>>, "none")
    /\ UNCHANGED <<usb_timeout, open_timeout, internal_mode, dev_running,
                   dev_stuck, dev_freq>>

on == Straight("on", <<OnCmd>>, internal_mode, "0", <<>>, <<>>, "none")

off == Straight("off", <<OffCmd>>, internal_mode, "0", <<>>, <<>>, "none")

\* the value of the property get_status: the literal mode "sweep" and the
\* flag parsed from the reply to 'r?'
GetStatus(run, stuck) ==
    [mode |-> "sweep", is_running |-> ParseStatus(StatusReply(run, stuck))]

\* get_status read by a caller of the module (a property: reading the
\* attribute runs the query and yields the tuple)
get_status ==
    /\ active
    /\ LET st == GetStatus(dev_running, dev_stuck)
       IN  last' = [LastCall("get_status", "tuple",
                             <<Query(USB, "r?", dev_running)>>, {USB},
                             <<>>, <<>>, "none")
                    EXCEPT !.mode = st.mode, !.running = st.is_running]
    /\ UNCHANGED <<active, usb_timeout, conn, rm, open_timeout, internal_mode,
                   dev_running, dev_stuck, dev_freq>>

\* the expression self.get_status() inside a handler: reading the property
\* runs the query, then the returned tuple is called, which raises
\* TypeError ('tuple' object is not callable)
CallGetStatus(run) == [exc |-> "TypeError", log |-> <<Query(USB, "r?", run)>>]

\* what float() is given by get_power: the return value of write('W?'),
\* which is the number of bytes written or, in older pyvisa releases, the
\* pair (bytes written, status code)
WriteReturns == {"count", "pair"}

\* len('W?') plus the write termination ('\r\n')
BytesOfPowerQuery == 4

\* get_power: 'W?' is written, not queried; float() of the write's return
\* value is the byte count, or raises TypeError on the pair
get_power ==
    /\ active
    /\ \E wr \in WriteReturns :
        LET w == Writes(USB, <<Lit("W?")>>, dev_running)
        IN  last' = [LastCall("get_power",
                              IF wr = "count" THEN "float" ELSE "TypeError",
                              w.log, {USB}, <<>>, <<>>, "none")
                     EXCEPT !.val = IF wr = "count"
                                    THEN FormatS(BytesOfPowerQuery) ELSE NoArg]
    /\ UNCHANGED <<active, usb_timeout, conn, rm, open_timeout, internal_mode,
                   dev_running, dev_stuck, dev_freq>>

\* get_frequency: float() of the reply to 'f?', the frequency the device
\* holds, in Hz
get_frequency ==
    /\ active
    /\ last' = [LastCall("get_frequency", "float",
                         <<Query(USB, "f?", dev_running)>>, {USB},
                         <<>>, <<>>, "none")
                EXCEPT !.val = dev_freq]
    /\ UNCHANGED <<active, usb_timeout, conn, rm, open_timeout, internal_mode,
                   dev_running, dev_stuck, dev_freq>>

set_power ==
    \E power \in OptPowers :
        IF power # <<>>
        THEN Straight("set_power", <<Cmd("W", FormatF(power[1]), "")>>,
                      internal_mode, "0", <<>>, power, "none")
        ELSE Straight("set_power", <<>>, internal_mode, "-1", <<>>, power, "none")

\* set_frequency without the None test's error return
set_frequency_none_ok ==
    \E freq \in OptFreqs :
        IF freq # <<>>
        THEN Straight("set_frequency", <<Cmd("f", FormatE(freq[1]), " MHz")>>,
                      internal_mode, "0", freq, <<>>, "none")
        ELSE Straight("set_frequency", <<>>, internal_mode, "0", freq, <<>>, "none")

set_frequency ==
    \E freq \in OptFreqs :
        IF freq # <<>>
        THEN Straight("set_frequency", <<Cmd("f", FormatE(freq[1]), " MHz")>>,
                      internal_mode, "0", freq, <<>>, "none")
        ELSE Straight("set_frequency", <<>>, internal_mode, "-1", freq, <<>>, "none")

\* cw_on: line 139 calls self.get_status(), which raises; the assignment
\* of internal_mode on line 140 and everything after it is not reached
cw_on ==
    /\ active
    /\ LET st == CallGetStatus(dev_running)
       IN  last' = LastCall("cw_on", st.exc, st.log, {USB}, <<>>, <<>>, "none")
    /\ UNCHANGED <<active, usb_timeout, conn, rm, open_timeout, internal_mode,
                   dev_running, dev_stuck, dev_freq>>

\* set_cw: line 160 calls self.get_status(), which raises; nothing after
\* it is reached
set_cw ==
    /\ active
    /\ \E frequency \in OptFreqs, power \in OptPowers :
        LET st == CallGetStatus(dev_running)
        IN  last' = LastCall("set_cw", st.exc, st.log, {USB},
                             frequency, power, "none")
    /\ UNCHANGED <<active, usb_timeout, conn, rm, open_timeout, internal_mode,
                   dev_running, dev_stuck, dev_freq>>

\* set_list with the upper bound taken from the first list entry
SetListRunUpperFromFirst(freq, power) ==
    LET n == Len(freq)
    IN  IF n = 0
        THEN [cmds |-> <<Lit("X0")>>, ret |-> "IndexError", done |-> FALSE]
        ELSE LET bounds == <<Lit("X0"),
                             Cmd("l", FormatE(freq[1]), ""),
                             Cmd("u", FormatE(freq[1]), ""),
                             Cmd("s", FormatD(n), ""),
                             Lit("t10.00")>>
             IN  IF power = <<>>
                 THEN [cmds |-> bounds, ret |-> "TypeError", done |-> FALSE]
                 ELSE [cmds |-> bounds \o
                                <<Cmd("[", FormatF(power[1]), ""),
                                  Cmd("]", FormatF(power[1]), ""),
                                  Lit("^1"),
                                  Lit("g1")>>,
                       ret |-> "0", done |-> TRUE]

\* the commands set_list writes before the statement that ends it, the
\* outcome, and whether line 222 (internal_mode = 'list') is reached
SetListRun(freq, power) ==
    LET n == Len(freq)
    IN  IF n = 0
        THEN \* freq[0] raises IndexError after 'X0'
             [cmds |-> <<Lit("X0")>>, ret |-> "IndexError", done |-> FALSE]
        ELSE LET bounds == <<Lit("X0"),
                             Cmd("l", FormatE(freq[1]), ""),
                             Cmd("u", FormatE(freq[n]), ""),
                             Cmd("s", FormatD(n), ""),
                             Lit("t10.00")>>
             IN  IF power = <<>>
                 THEN \* '[{0:f}'.format(None) raises TypeError
                      [cmds |-> bounds, ret |-> "TypeError", done |-> FALSE]
                 ELSE [cmds |-> bounds \o
                                <<Cmd("[", FormatF(power[1]), ""),
                                  Cmd("]", FormatF(power[1]), ""),
                                  Lit("^1"),
                                  Lit("g1")>>,
                       ret |-> "0", done |-> TRUE]

set_list ==
    \E freq \in FreqLists, power \in OptPowers :
        LET r == SetListRun(freq, power)
        IN  Straight("set_list", r.cmds,
                     IF r.done THEN "list" ELSE internal_mode,
                     r.ret, freq, power, "none")

reset_listpos ==
    Straight("reset_listpos", <<Lit("g0")>>, internal_mode, "0", <<>>, <<>>, "none")

reset_sweeppos ==
    Straight("reset_sweeppos", <<Lit("g1")>>, "sweep", "0", <<>>, <<>>, "none")

\* the commands of set_sweep
SetSweepCmds(start, stop, step) ==
    <<Lit("X0"),
      Cmd("l", FormatS(start - step), ""),
      Cmd("u", FormatS(stop), ""),
      Cmd("s", FormatS(step), ""),
      Lit("x2"),
      Lit("w1")>>

\* set_sweep names self._gpib_connection, an attribute nothing assigns:
\* line 255 raises AttributeError before any write
set_sweep ==
    /\ active
    /\ \E start \in Freqs, stop \in Freqs, step \in SweepSteps, power \in Powers :
        IF conn[GPIB] = "absent"
        THEN /\ last' = LastCall("set_sweep", "AttributeError", <<>>, {GPIB},
                                 <<start, stop, step>>, <<power>>, "none")
             /\ UNCHANGED <<internal_mode, dev_running>>
        ELSE LET w == Writes(GPIB, SetSweepCmds(start, stop, step), dev_running)
             IN  /\ last' = LastCall("set_sweep", "sweep", w.log, {GPIB},
                                     <<start, stop, step>>, <<power>>, "none")
                 /\ internal_mode' = "sweep"
                 /\ dev_running' = w.run
    /\ UNCHANGED <<active, usb_timeout, conn, rm, open_timeout, dev_stuck,
                   dev_freq>>

reset_sweep ==
    Straight("reset_sweep", <<Lit("g1"), Lit("g0")>>, internal_mode, "0",
             <<>>, <<>>, "none")

sweep_on ==
    Straight("sweep_on", <<OnCmd, Lit("g1")>>, "sweep", "1", <<>>, <<>>, "none")

list_on ==
    Straight("list_on", <<Lit("e1r1"), Lit("g1")>>, "list", "0", <<>>, <<>>, "none")

\* the command byte set_ext_trigger chooses for a polarity ("" : none,
\* the handler returns -1)
TriggerEdgeCmd(pol) ==
    IF pol = "RISING" THEN "w1"
    ELSE IF pol = "FALLING" THEN "w1"
    ELSE ""

\* set_ext_trigger with the write outside try/except: a write that raises
\* ends the handler with the exception
set_ext_trigger_raises ==
    \E pol \in Pols, write_ok \in BOOLEAN :
        LET edge == TriggerEdgeCmd(pol)
        IN  IF edge = ""
            THEN write_ok /\ Straight("set_ext_trigger", <<>>, internal_mode,
                                      "-1", <<>>, <<>>, pol)
            ELSE IF write_ok
            THEN Straight("set_ext_trigger", <<Lit(edge)>>, internal_mode,
                          "0", <<>>, <<>>, pol)
            ELSE /\ active
                 /\ last' = LastCall("set_ext_trigger", "VisaIOError",
                                     <<FailedWrite(USB, Lit(edge), dev_running)>>,
                                     {USB}, <<>>, <<>>, pol)
                 /\ UNCHANGED <<active, usb_timeout, conn, rm, open_timeout,
                                internal_mode, dev_running, dev_stuck, dev_freq>>

\* set_ext_trigger: an unsupported polarity returns -1 before any write;
\* the write is inside try/except, a write that raises makes the handler
\* return -1
set_ext_trigger ==
    \E pol \in Pols, write_ok \in BOOLEAN :
        LET edge == TriggerEdgeCmd(pol)
        IN  IF edge = ""
            THEN write_ok /\ Straight("set_ext_trigger", <<>>, internal_mode,
                                      "-1", <<>>, <<>>, pol)
            ELSE IF write_ok
            THEN Straight("set_ext_trigger", <<Lit(edge)>>, internal_mode,
                          "0", <<>>, <<>>, pol)
            ELSE /\ active
                 /\ last' = LastCall("set_ext_trigger", "-1",
                                     <<FailedWrite(USB, Lit(edge), dev_running)>>,
                                     {USB}, <<>>, <<>>, pol)
                 /\ UNCHANGED <<active, usb_timeout, conn, rm, open_timeout,
                                internal_mode, dev_running, dev_stuck, dev_freq>>

Next ==
    \/ on_activate
    \/ on_deactivate
    \/ on
    \/ off
    \/ get_status
    \/ get_power
    \/ get_frequency
    \/ set_power
    \/ set_frequency
    \/ cw_on
    \/ set_cw
    \/ set_list
    \/ reset_listpos
    \/ reset_sweeppos
    \/ set_sweep
    \/ reset_sweep
    \/ sweep_on
    \/ list_on
    \/ set_ext_trigger

Spec == Init /\ [][Next]_vars

----------------------------------------------------------------------------
(* Vocabulary of the properties *)

\* the commands the last call wrote, in order
Written == SelectSeq(last.log, LAMBDA e : e.t = "w")

\* handlers that change the output mode
ModeSwitchOps == {"set_cw", "set_list", "set_sweep", "cw_on", "list_on", "sweep_on"}

\* commands that load or start a list or sweep
ModeCmdTexts == {"X0", "l", "u", "s", "t10.00", "[", "]", "^1", "g1", "x2", "w1"}

\* setters that take a frequency or a power
Setters == {"set_frequency", "set_power", "set_cw", "set_list", "set_sweep"}

\* the frequencies among the last call's arguments (set_sweep records
\* <<start, stop, step>>: the step is not a frequency)
FreqArgs ==
    IF last.op = "set_sweep" THEN {last.fr[1], last.fr[2]}
    ELSE {last.fr[i] : i \in DOMAIN last.fr}

\* inside the limits of get_limits
FreqInRange(f) == get_limits.min_frequency <= f /\ f <= get_limits.max_frequency
PowerInRange(p) == get_limits.min_power <= p /\ p <= get_limits.max_power

ArgOutOfRange ==
    \/ \E f \in FreqArgs : ~FreqInRange(f)
    \/ last.pw # <<>> /\ ~PowerInRange(last.pw[1])

\* the frequency (kHz) a '%e' argument denotes
ValueE(a) == IF a.x >= 9 THEN a.m * Pow10(a.x - 9) ELSE a.m \div Pow10(9 - a.x)

\* the '%e' argument a denotes f to seven significant digits: f itself when
\* f has at most seven, else within half a unit of the seventh
Carries7(a, f) ==
    /\ a.k = "e"
    /\ IF NDigits(f) <= 7
       THEN ValueE(a) = f
       ELSE LET diff == IF ValueE(a) >= f THEN ValueE(a) - f ELSE f - ValueE(a)
            IN  2 * diff <= Pow10(NDigits(f) - 7)

\* the positions in Written of the commands with text s
At(s) == {i \in DOMAIN Written : Written[i].c.s = s}

\* the running flag parsed from the last status reply of the last call
StatusQueries == {i \in DOMAIN last.log : last.log[i].t = "q" /\ last.log[i].c = Lit("r?")}
LastStatusFlag ==
    /\ StatusQueries # {}
    /\ LET i == CHOOSE k \in StatusQueries : \A n \in StatusQueries : n <= k
       IN  ParseStatus(StatusReply(last.log[i].run, dev_stuck))

SetListDone == last.op = "set_list" /\ Len(last.fr) > 0 /\ last.pw # <<>>

----------------------------------------------------------------------------
(* Properties *)

\* C1: a mode-switch operation called while the device output is running
\* writes the output-disable command ('E0r0') before the first command that
\* loads or starts a list or sweep.
C1_StoppedBeforeModeChange ==
    (last.op \in ModeSwitchOps /\ last.pre_running) =>
        \A i \in DOMAIN Written :
            Written[i].c.s \in ModeCmdTexts
                => \E j \in 1..(i - 1) : Written[j].c = OffCmd

\* C2: whenever cw_on returns 0, the running flag parsed from the call's
\* last status reply is true, and, when the device was not running at the
\* call, the CW-enable command was written.  No cw_on call returns 0 (every
\* call ends in CallGetStatus's TypeError), so the property has no instance.
C2_CwOnReturnsAfterRunning ==
    (last.op = "cw_on" /\ last.ret = "0") =>
        /\ LastStatusFlag
        /\ ~last.pre_running => \E i \in DOMAIN Written : Written[i].c = CwEnableCmd

\* C3: a cw_on call on a device that never reports running ends with a
\* timeout failure.
C3_CwOnTimesOut ==
    (last.op = "cw_on" /\ dev_stuck) => last.ret = "timeout"

\* C4: a cw_on call made while the device is running in CW mode writes no
\* command, returns 0 and leaves the mode and the running flag unchanged.
C4_CwOnIdempotent ==
    (last.op = "cw_on" /\ last.pre_running /\ ModeOf(last.pre_mode) = "cw") =>
        /\ Written = <<>>
        /\ last.ret = "0"
        /\ ModeOf(internal_mode) = "cw"
        /\ dev_running

\* C5: a cw_on call made while the device is running in LIST or SWEEP mode
\* writes the output-disable command and after it the CW-enable command.
C5_CwOnStopsOtherMode ==
    (last.op = "cw_on" /\ last.pre_running /\ last.pre_mode \in {"list", "sweep"}) =>
        \E i, j \in DOMAIN Written :
            i < j /\ Written[i].c = OffCmd /\ Written[j].c = CwEnableCmd

\* C6: the mode get_status returns is the adapter-local mode the most recent
\* mode-switch operation established.
C6_StatusModeIsLocalMode ==
    (last.op = "get_status" /\ internal_mode # "unset") => last.mode = internal_mode

\* C7: every handler names only the connection opened at activation, and
\* every command goes over it.
C7_SingleTransport ==
    /\ last.refs \subseteq {USB}
    /\ \A i \in DOMAIN last.log : last.log[i].h = USB

\* C8: a successful set_ext_trigger(RISING) followed by a successful
\* set_ext_trigger(FALLING) writes two different commands.
C8_DistinctTriggerCommands ==
    [][(/\ last.op = "set_ext_trigger" /\ last.pol = "RISING" /\ last.ret = "0"
        /\ last'.op = "set_ext_trigger" /\ last'.pol = "FALLING" /\ last'.ret = "0")
       => last.log[1].c # last'.log[1].c]_vars

\* the parts of C9 that do not depend on how a frequency is carried: the
\* entry count, the same power in '[' and ']', and 'g1' after all of them
SetListShape ==
    /\ \E i \in At("s") : Written[i].c.a = FormatD(Len(last.fr))
    /\ \A i \in At("s") : Written[i].c.a = FormatD(Len(last.fr))
    /\ At("l") # {} /\ At("u") # {} /\ At("[") # {} /\ At("]") # {}
    /\ \A i \in At("[") \cup At("]") :
           Written[i].c.a.k = "f" /\ Written[i].c.a.m = last.pw[1]
    /\ At("g1") # {}
    /\ \A g \in At("g1") :
           \A i \in At("s") \cup At("l") \cup At("u") \cup At("[") \cup At("]") : i < g

\* C9 as stated: set_list(freq, p) with freq non-empty writes the entry count
\* len(freq), a lower bound whose value is freq[0], an upper bound whose
\* value is freq[-1], p in both '[' and ']', and 'g1' only after these.
C9_SetListExact ==
    SetListDone =>
        /\ SetListShape
        /\ \A i \in At("l") : ValueE(Written[i].c.a) = last.fr[1]
        /\ \A i \in At("u") : ValueE(Written[i].c.a) = last.fr[Len(last.fr)]

\* C9 (amended): as above, with the bounds carrying freq[0] and freq[-1] in
\* '%e' notation: to seven significant digits.
C9_SetListSevenDigits ==
    SetListDone =>
        /\ SetListShape
        /\ \A i \in At("l") : Carries7(Written[i].c.a, last.fr[1])
        /\ \A i \in At("u") : Carries7(Written[i].c.a, last.fr[Len(last.fr)])

\* C9 witness: set_list has returned for a list of two different
\* frequencies whose first has eight significant digits.
C9_Witness ==
    /\ SetListDone
    /\ last.ret = "0"
    /\ Len(last.fr) >= 2
    /\ last.fr[1] # last.fr[Len(last.fr)]
    /\ NDigits(last.fr[1]) = 8
    /\ ValueE(FormatE(last.fr[1])) # last.fr[1]

\* C10: a setter given a frequency or a power outside the limits of
\* get_limits fails with an out-of-range error and writes nothing.
C10_OutOfRangeRejected ==
    (last.op \in Setters /\ ArgOutOfRange) =>
        /\ last.ret = "out_of_range"
        /\ Written = <<>>

\* C11: set_frequency and set_power called with None return -1 and write
\* nothing; called with a value they write exactly one command and return 0.
C11_NoneIsAnError ==
    /\ last.op = "set_frequency" =>
           IF last.fr = <<>>
           THEN last.ret = "-1" /\ Written = <<>>
           ELSE last.ret = "0" /\ Len(Written) = 1 /\ Written[1].c.s = "f"
    /\ last.op = "set_power" =>
           IF last.pw = <<>>
           THEN last.ret = "-1" /\ Written = <<>>
           ELSE last.ret = "0" /\ Len(Written) = 1 /\ Written[1].c.s = "W"

\* C11 witness: set_frequency(None) has returned.
C11_Witness ==
    last.op = "set_frequency" /\ last.fr = <<>> /\ last.ret = "-1"

\* C12: after set_cw returns its tuple, the adapter's output mode and the
\* mode in the tuple are both CW.  No set_cw call returns (every call ends in
\* CallGetStatus's TypeError), so the property has no instance.
C12_SetCwLeavesCw ==
    (last.op = "set_cw" /\ last.ret = "tuple") =>
        /\ internal_mode = "cw"
        /\ last.mode = "cw"

\* handlers that are not mode-switch operations
NonModeOps == {"on", "off", "get_status", "get_frequency", "set_frequency",
               "get_power", "set_power", "reset_listpos", "reset_sweeppos",
               "reset_sweep", "set_ext_trigger"}

\* the value r that get_frequency returned is f (kHz), to the seven
\* significant digits the command encoding keeps
ReturnsFreq(r, f) == r.k = "e" /\ r.x <= 12 /\ Carries7(r, f)

\* C13: for a frequency f inside the limits, get_frequency called right
\* after set_frequency(f) returns f.
C13_FrequencyRoundTrip ==
    [][(/\ last.op = "set_frequency" /\ last.fr # <<>>
        /\ FreqInRange(last.fr[1])
        /\ last'.op = "get_frequency")
       => ReturnsFreq(last'.val, last.fr[1])]_vars

\* C14: a handler that is not a mode-switch operation leaves the adapter's
\* output mode as it found it.
C14_ModeFrame ==
    last.op \in NonModeOps => internal_mode = last.pre_mode

\* the last call tried a write that raised
WriteFailed == \E i \in DOMAIN last.log : last.log[i].t = "x"

\* C15: set_ext_trigger with a polarity that is neither RISING nor FALLING
\* returns -1 without touching the transport, and returns -1 when the write
\* for a supported polarity raises.
C15_TriggerErrors ==
    last.op = "set_ext_trigger" =>
        /\ last.pol \notin {"RISING", "FALLING"} => last.ret = "-1" /\ last.log = <<>>
        /\ WriteFailed => last.ret = "-1" /\ Written = <<>>
        /\ last.ret \in {"0", "-1"}

\* C15 witness: set_ext_trigger(RISING) has returned after its write raised.
C15_Witness ==
    last.op = "set_ext_trigger" /\ last.pol = "RISING" /\ WriteFailed

\* C16: every on_activate opens the connection with the configured timeout in
\* seconds times 1000.
C16_TimeoutInMilliseconds ==
    last.op = "on_activate" => open_timeout = DefaultTimeout * 1000

\* C17: while the module is not active, neither the connection nor the
\* resource manager on_activate opened is open.
C17_NothingOpenWhenInactive ==
    ~active => conn[USB] # "open" /\ rm # "open"
====
